---- MODULE Spec2Model ----
(***************************************************************************)
(* Model of src/src/utils/openai.ts: streamOpenAIChat and the async        *)
(* generator streamChunks it returns.                                      *)
(*                                                                         *)
(* Text is a sequence of one-character strings (a JavaScript string, one   *)
(* element per UTF-16 code unit).  A byte of the response body is written  *)
(* as the one-character string of its ASCII character, or as "C3" / "A9"   *)
(* for the two bytes of the UTF-8 encoding of U+00E9, whose decoded        *)
(* character is written "e'" below (E_ACUTE).                              *)
(***************************************************************************)
EXTENDS Integers, Sequences, FiniteSets, TLC

(***************************************************************************)
(* String primitives of the JavaScript runtime used by streamChunks.       *)
(***************************************************************************)

\* String.prototype.startsWith
StartsWith(s, p) ==
    /\ Len(s) >= Len(p)
    /\ SubSeq(s, 1, Len(p)) = p

\* 1-based index of the first occurrence of p in s, 0 when there is none
\* (String.prototype.indexOf, shifted by one).
IndexOf(s, p) ==
    LET hits == { i \in 1..(Len(s) - Len(p) + 1) :
                    p = << >> \/ (s[i] = p[1] /\ SubSeq(s, i, i + Len(p) - 1) = p) }
    IN  IF hits = {} THEN 0 ELSE CHOOSE i \in hits : \A j \in hits : i <= j

\* String.prototype.replace with a string pattern: only the first occurrence
\* is replaced.
Replace(s, p, r) ==
    LET i == IndexOf(s, p)
    IN  IF i = 0 THEN s
        ELSE SubSeq(s, 1, i - 1) \o r \o SubSeq(s, i + Len(p), Len(s))

\* The white space and line terminator characters of the model's alphabet
\* that String.prototype.trim removes.
WhiteSpace == {" ", "\t", "\r", "\n", "\f"}

\* String.prototype.trim
Trim(s) ==
    LET keep == { i \in 1..Len(s) : s[i] \notin WhiteSpace }
    IN  IF keep = {} THEN << >>
        ELSE LET lo == CHOOSE i \in keep : \A j \in keep : i <= j
                 hi == CHOOSE i \in keep : \A j \in keep : i >= j
             IN  SubSeq(s, lo, hi)

\* String.prototype.split with a one-character separator: the pieces between
\* the separators, always at least one piece.
RECURSIVE Split(_, _)
Split(s, sep) ==
    LET at == { i \in 1..Len(s) : s[i] = sep }
    IN  IF at = {} THEN <<s>>
        ELSE LET i == CHOOSE i \in at : \A j \in at : i <= j
             IN  <<SubSeq(s, 1, i - 1)>> \o Split(SubSeq(s, i + 1, Len(s)), sep)

(***************************************************************************)
(* TextDecoder('utf-8') used with { stream: true }: an incomplete          *)
(* multi-byte sequence at the end of a chunk is held back and completed by *)
(* the next chunk; an invalid sequence decodes to U+FFFD.                  *)
(***************************************************************************)
E_ACUTE == "e'"
REPLACEMENT == "U+FFFD"
LeadByte == "C3"
ContByte == "A9"

\* decoder.decode(value) without { stream: true }: nothing is held back, a
\* multi-byte sequence cut by the end of the chunk decodes to U+FFFD.
DecodeNoStream(held, bytes) ==
    LET n == Len(bytes)
        piece(i) ==
            IF bytes[i] = LeadByte
            THEN IF i < n /\ bytes[i + 1] = ContByte THEN "" ELSE REPLACEMENT
            ELSE IF bytes[i] = ContByte
                 THEN IF i > 1 /\ bytes[i - 1] = LeadByte THEN E_ACUTE ELSE REPLACEMENT
                 ELSE bytes[i]
        IsChar(c) == c # ""
    IN  [text |-> SelectSeq([i \in 1..n |-> piece(i)], IsChar), held |-> << >>]

\* decoder.decode(value, { stream: true }): held is the held-back lead byte
\* (or << >>), the result is the decoded text and the new held-back bytes.
\* Each byte of held \o bytes decodes to at most one character: a lead byte
\* to nothing when its continuation byte follows or when it ends the chunk
\* (it is held back), else to U+FFFD; a continuation byte to the character
\* when it follows a lead byte, else to U+FFFD; an ASCII byte to itself.
Decode(held, bytes) ==
    LET all == held \o bytes
        n == Len(all)
        piece(i) ==
            IF all[i] = LeadByte
            THEN IF i = n \/ all[i + 1] = ContByte THEN "" ELSE REPLACEMENT
            ELSE IF all[i] = ContByte
                 THEN IF i > 1 /\ all[i - 1] = LeadByte THEN E_ACUTE ELSE REPLACEMENT
                 ELSE all[i]
        IsChar(c) == c # ""
    IN  [text |-> SelectSeq([i \in 1..n |-> piece(i)], IsChar),
         held |-> IF n > 0 /\ all[n] = LeadByte THEN <<LeadByte>> ELSE << >>]

(***************************************************************************)
(* JavaScript values and JSON.  A value is a record [t, s, f]: t its type, *)
(* s the text of a string, number or boolean, f the members of an object   *)
(* (records [k, v], in order).                                             *)
(***************************************************************************)
JUndefined == [t |-> "undefined", s |-> << >>, f |-> << >>]
JNull == [t |-> "null", s |-> << >>, f |-> << >>]
JString(s) == [t |-> "string", s |-> s, f |-> << >>]
JNumber(s) == [t |-> "number", s |-> s, f |-> << >>]
JBoolean(s) == [t |-> "boolean", s |-> s, f |-> << >>]
JObject(f) == [t |-> "object", s |-> << >>, f |-> f]

Digits == {"0", "1", "2", "3", "4", "5", "6", "7", "8", "9"}
TRUE_TEXT == <<"t","r","u","e">>
NULL_TEXT == <<"n","u","l","l">>
Quoted(s) == <<"\"">> \o s \o <<"\"">>

\* The JSON text of a value whose strings need no escape sequence: a scalar,
\* or an object whose members are scalars or objects without members.
ScalarText(v) ==
    CASE v.t = "string" -> Quoted(v.s)
      [] v.t = "null" -> NULL_TEXT
      [] v.t = "object" -> <<"{", "}">>
      [] OTHER -> v.s

RECURSIVE MembersText(_, _)
MembersText(f, i) ==
    IF i > Len(f) THEN << >>
    ELSE (IF i > 1 THEN <<",">> ELSE << >>)
         \o Quoted(f[i].k) \o <<":">> \o ScalarText(f[i].v)
         \o MembersText(f, i + 1)

JsonText(v) ==
    IF v.t = "object" THEN <<"{">> \o MembersText(v.f, 1) \o <<"}">> ELSE ScalarText(v)

(***************************************************************************)
(* The constants of streamChunks.                                          *)
(***************************************************************************)
DATA_PREFIX == <<"d","a","t","a",":"," ">>
DONE_TEXT == <<"[","D","O","N","E","]">>
OUTPUT_TEXT_DELTA ==
    <<"r","e","s","p","o","n","s","e",".","o","u","t","p","u","t","_","t","e","x","t",
      ".","d","e","l","t","a">>
TYPE_NAME == <<"t","y","p","e">>
DELTA_NAME == <<"d","e","l","t","a">>

(***************************************************************************)
(* The events the response bodies of the model carry.                      *)
(***************************************************************************)
HEL == <<"H","e","l">>
LO == <<"l","o">>
COMPLETED == <<"r","e","s","p","o","n","s","e",".","c","o","m","p","l","e","t","e","d">>

Event(type, delta) ==
    JObject(<<[k |-> TYPE_NAME, v |-> JString(type)], [k |-> DELTA_NAME, v |-> delta]>>)
EventWithoutDelta(type) == JObject(<<[k |-> TYPE_NAME, v |-> JString(type)]>>)

EvHel == Event(OUTPUT_TEXT_DELTA, JString(HEL))
EvLo == Event(OUTPUT_TEXT_DELTA, JString(LO))
EvAcute == Event(OUTPUT_TEXT_DELTA, JString(<<E_ACUTE>>))
EvOtherType == Event(COMPLETED, JString(HEL))
EvEmptyDelta == Event(OUTPUT_TEXT_DELTA, JString(<< >>))
EvAbsentDelta == EventWithoutDelta(OUTPUT_TEXT_DELTA)
EvNumberDelta == Event(OUTPUT_TEXT_DELTA, JNumber(<<"5">>))
EvTrueDelta == Event(OUTPUT_TEXT_DELTA, JBoolean(TRUE_TEXT))
EvObjectDelta == Event(OUTPUT_TEXT_DELTA, JObject(<< >>))

JsonValues ==
    { EvHel, EvLo, EvAcute, EvOtherType, EvEmptyDelta, EvAbsentDelta, EvNumberDelta,
      EvTrueDelta, EvObjectDelta, JNull }

(***************************************************************************)
(* One candidate line.                                                     *)
(***************************************************************************)

\* JSON.parse(data): the value data is the JSON text of, or a SyntaxError
\* (ok = FALSE) when data is the JSON text of none of JsonValues (on the
\* bodies of the model: when data is not a JSON text).
JSONParse(data) ==
    LET hits == { v \in JsonValues : JsonText(v) = data }
    IN  IF hits = {} THEN [ok |-> FALSE, val |-> JUndefined]
        ELSE [ok |-> TRUE, val |-> CHOOSE v \in hits : TRUE]

\* parsed.<name>: undefined unless parsed is an object with that member (the
\* last one of that name); a TypeError (ok = FALSE) when parsed is null.
GetMember(parsed, name) ==
    IF parsed.t = "null" THEN [ok |-> FALSE, val |-> JUndefined]
    ELSE IF parsed.t # "object" THEN [ok |-> TRUE, val |-> JUndefined]
    ELSE LET hits == { i \in 1..Len(parsed.f) : parsed.f[i].k = name }
         IN  IF hits = {} THEN [ok |-> TRUE, val |-> JUndefined]
             ELSE [ok |-> TRUE,
                   val |-> parsed.f[CHOOSE i \in hits : \A j \in hits : i >= j].v]

\* ToBoolean: the values JavaScript treats as true in a condition.
Truthy(v) ==
    CASE v.t = "string" -> v.s # << >>
      [] v.t = "number" -> \E i \in 1..Len(v.s) : v.s[i] \in Digits \ {"0"}
      [] v.t = "boolean" -> v.s = TRUE_TEXT
      [] v.t = "object" -> TRUE
      [] OTHER -> FALSE

\* What one step of the generator body does: skip (go on with the next line),
\* yield a value, return, or throw.
Skip == [kind |-> "skip", value |-> JUndefined]
Yield(v) == [kind |-> "yield", value |-> v]
Return == [kind |-> "return", value |-> JUndefined]
Throw == [kind |-> "throw", value |-> JUndefined]

\* A condition that tests the discriminant only.
IsDeltaTypeOnly(type, delta) == type = JString(OUTPUT_TEXT_DELTA)

\* The condition of the if around the yield:
\* parsed.type === "response.output_text.delta" && parsed.delta
IsDelta(type, delta) ==
    /\ type = JString(OUTPUT_TEXT_DELTA)
    /\ Truthy(delta)

\* The body of the try: JSON.parse(data), then the test of parsed.type and
\* parsed.delta and the yield of parsed.delta.  JSON.parse throws on a text
\* that is not JSON, the member access throws on null.
TryBody(data) ==
    LET parsed == JSONParse(data)
    IN  IF ~parsed.ok THEN Throw
        ELSE LET type == GetMember(parsed.val, TYPE_NAME)
                 delta == GetMember(parsed.val, DELTA_NAME)
             IN  IF ~type.ok THEN Throw
                 ELSE IF IsDelta(type.val, delta.val) THEN Yield(delta.val)
                 ELSE Skip

\* A try without its catch: the exception of the body leaves the generator.
CatchRethrows(r) == r

\* try { ... } catch {}: an exception of the body is dropped.
Catch(r) == IF r.kind = "throw" THEN Skip ELSE r

\* The payload without the trim.
PayloadUntrimmed(line) == Replace(line, DATA_PREFIX, << >>)

\* line.replace('data: ', '').trim()
Payload(line) == Trim(Replace(line, DATA_PREFIX, << >>))

\* data === '[DONE]'
IsDone(data) == data = DONE_TEXT

\* One iteration of for (const line of lines).
ProcessLine(line) ==
    IF StartsWith(line, DATA_PREFIX)
    THEN LET data == Payload(line)
         IN  IF IsDone(data) THEN Return ELSE Catch(TryBody(data))
    ELSE Skip

\* A for loop that forgets the lines after the one it yielded from.
RECURSIVE RunLinesDropsRest(_)
RunLinesDropsRest(ls) ==
    IF ls = << >> THEN [kind |-> "exhausted", value |-> JUndefined, rest |-> << >>]
    ELSE LET r == ProcessLine(Head(ls))
         IN  IF r.kind = "skip" THEN RunLinesDropsRest(Tail(ls))
             ELSE [kind |-> r.kind, value |-> r.value, rest |-> << >>]

\* A for loop that resumes at the line it yielded from.
RECURSIVE RunLinesRepeats(_)
RunLinesRepeats(ls) ==
    IF ls = << >> THEN [kind |-> "exhausted", value |-> JUndefined, rest |-> << >>]
    ELSE LET r == ProcessLine(Head(ls))
         IN  IF r.kind = "skip" THEN RunLinesRepeats(Tail(ls))
             ELSE [kind |-> r.kind, value |-> r.value, rest |-> ls]

\* The for loop from its current position: the lines ls are processed in order
\* up to the first yield, return or throw; rest are the lines not yet reached.
RECURSIVE RunLines(_)
RunLines(ls) ==
    IF ls = << >> THEN [kind |-> "exhausted", value |-> JUndefined, rest |-> << >>]
    ELSE LET r == ProcessLine(Head(ls))
         IN  IF r.kind = "skip" THEN RunLines(Tail(ls))
             ELSE [kind |-> r.kind, value |-> r.value, rest |-> Tail(ls)]

(***************************************************************************)
(* The response bodies the model runs on: up to MaxRecs lines of the wire  *)
(* format.  kind is what a line is: a Delta with its text, the sentinel, a *)
(* non-Delta event, an event whose delta is not a string, or noise (blank, *)
(* another SSE field, malformed JSON).                                     *)
(***************************************************************************)
MaxRecs == 3

\* The UTF-8 bytes of a text of the model's alphabet.
Utf8Encode(text) ==
    LET byteAt(j) ==
            LET c == text[(j + 1) \div 2]
            IN  IF j % 2 = 1 THEN (IF c = E_ACUTE THEN LeadByte ELSE c)
                ELSE (IF c = E_ACUTE THEN ContByte ELSE "")
        IsByte(b) == b # ""
    IN  SelectSeq([j \in 1..(2 * Len(text)) |-> byteAt(j)], IsByte)

EventLine(v) == DATA_PREFIX \o Utf8Encode(JsonText(v))
Rec(kind, text, line) == [kind |-> kind, text |-> text, line |-> line]

RecHel == Rec("delta", HEL, EventLine(EvHel))
RecLo == Rec("delta", LO, EventLine(EvLo))
RecAcute == Rec("delta", <<E_ACUTE>>, EventLine(EvAcute))
RecHelCr == Rec("delta", HEL, EventLine(EvHel) \o <<"\r">>)
RecDone == Rec("sentinel", << >>, DATA_PREFIX \o DONE_TEXT)
RecDoneCr == Rec("sentinel", << >>, DATA_PREFIX \o DONE_TEXT \o <<"\r">>)
RecDonePadded ==
    Rec("sentinel", << >>, DATA_PREFIX \o <<" ">> \o DONE_TEXT \o <<" ", "\t">>)
RecBlank == Rec("noise", << >>, << >>)
RecField == Rec("noise", << >>, <<"e","v","e","n","t",":"," ","p","i","n","g">>)
RecNoSpace == Rec("noise", << >>, <<"d","a","t","a",":">> \o DONE_TEXT)
RecMalformed == Rec("noise", << >>, DATA_PREFIX \o <<"{">> \o Quoted(TYPE_NAME) \o <<":">>)
RecOtherType == Rec("event", << >>, EventLine(EvOtherType))
RecEmptyDelta == Rec("event", << >>, EventLine(EvEmptyDelta))
RecAbsentDelta == Rec("event", << >>, EventLine(EvAbsentDelta))
RecNull == Rec("event", << >>, EventLine(JNull))
RecNumberDelta == Rec("nonstring", << >>, EventLine(EvNumberDelta))
RecTrueDelta == Rec("nonstring", << >>, EventLine(EvTrueDelta))
RecObjectDelta == Rec("nonstring", << >>, EventLine(EvObjectDelta))

\* The lines of an ordinary body, and the lines a body has at most one of.
Common == { RecHel, RecDone }
Rare ==
    { RecLo, RecAcute, RecHelCr, RecDoneCr, RecDonePadded, RecBlank, RecField, RecNoSpace,
      RecMalformed, RecOtherType, RecEmptyDelta, RecAbsentDelta, RecNull,
      RecNumberDelta, RecTrueDelta, RecObjectDelta }

RecSeqs ==
    { rs \in UNION { [1..n -> Common \cup Rare] : n \in 0..MaxRecs } :
        \A i, j \in 1..Len(rs) : (rs[i] \in Rare /\ rs[j] \in Rare) => i = j }

\* The bytes of a body: each line followed by "\n".  (A body that ends in the
\* middle of a line is one the transport ends before its last bytes.)
RECURSIVE Render(_)
Render(rs) ==
    IF rs = << >> THEN << >> ELSE Head(rs).line \o <<"\n">> \o Render(Tail(rs))

\* The number of bytes of the first i lines of rs with their terminators.
RECURSIVE EndOf(_, _)
EndOf(rs, i) == IF i = 0 THEN 0 ELSE EndOf(rs, i - 1) + Len(rs[i].line) + 1

\* The sizes of the chunk the transport may hand out at position p of the body
\* b made of the lines rs: none to MaxChunk bytes, or all up to the end of a
\* line, or, from the start of a line, all up to the first byte after the end
\* of a line (a chunk that completes lines and begins the next one).
MaxChunk == 1

ChunkSizes(rs, b, p) ==
    LET ends == { EndOf(rs, i) : i \in 1..Len(rs) }
    IN  { k \in 0..MaxChunk : p + k <= Len(b) }
            \cup { e - p : e \in { f \in ends : f >= p } }
            \cup { e + 1 - p : e \in { f \in ends : f >= p /\ f < Len(b)
                                                   /\ p \in ends \cup {0} } }

(***************************************************************************)
(* State.                                                                  *)
(***************************************************************************)
VARIABLES
    recs,       \* the lines the response body is made of
    body,       \* the bytes of the response body
    pos,        \* the number of bytes of body the reader has handed out
    transport,  \* the body stream: "open", "closed" or "errored"
    call,       \* streamOpenAIChat: "initial", "returned" or how it threw
    fetched,    \* TRUE once fetch has sent the request
    reader,     \* "none", "locked" (getReader), "released" or "cancelled"
    gen,        \* the generator: "none", "suspendedStart", "awaitingRead",
                \* "suspendedYield" or "completed"
    done,       \* let done
    buffer,     \* let buffer
    pend,       \* the bytes decoder holds back
    lines,      \* the lines of the for loop not yet reached
    yielded,    \* the values the consumer has received, in order
    last,       \* the outcome of the consumer's latest call: "none", "value",
                \* "done" (completion reported) or "error" (rejected)
    exit,       \* how the generator completed: "none", "sentinel", "eof",
                \* "error", "throw" or "abandon"
    message,    \* the message of the Error streamOpenAIChat threw, << >> if none
    unanswered, \* the reads issued less the chunks delivered
    cut,        \* how the chunk before the last one that completed a line left
                \* that line: "none" (at a line end), "char" (inside a
                \* character), "marker" (inside 'data: ') or "line"
    active,     \* the call of streamOpenAIChat the variables above belong to
    other       \* the variables of the other call (<< >> when there is one
                \* call only)

vars ==
    <<recs, body, pos, transport, call, fetched, reader, gen, done, buffer, pend,
      lines, yielded, last, exit, message, unanswered, cut, active, other>>

Init ==
    /\ recs \in RecSeqs
    /\ body = Render(recs)
    /\ pos = 0
    /\ transport = "open"
    /\ call = "initial"
    /\ fetched = FALSE
    /\ reader = "none"
    /\ gen = "none"
    /\ done = FALSE
    /\ buffer = << >>
    /\ pend = << >>
    /\ lines = << >>
    /\ yielded = << >>
    /\ last = "none"
    /\ exit = "none"
    /\ message = << >>
    /\ unanswered = 0
    /\ cut = "none"
    /\ active = 1
    /\ other = << >>

\* The messages of the Errors streamOpenAIChat throws.
MISSING_KEY ==
    <<"M","i","s","s","i","n","g"," ","O","p","e","n","A","I"," ","A",
      "P","I"," ","k","e","y","."," ","P","l","e","a","s","e"," ","a",
      "d","d"," ","i","t"," ","i","n"," ","y","o","u","r"," ","P","r",
      "o","f","i","l","e"," ","p","a","g","e",".">>
API_ERROR == <<"O","p","e","n","A","I"," ","A","P","I"," ","e","r","r","o","r",":"," ">>
NO_BODY ==
    <<"N","o"," ","r","e","s","p","o","n","s","e"," ","b","o","d","y",
      " ","f","r","o","m"," ","O","p","e","n","A","I">>

\* await response.text(): the whole body decoded, '' when there is no body.
ResponseText(hasBody, b) == IF hasBody THEN Decode(<< >>, b).text ELSE << >>

\* The generator arrives at await reader.read(): a read is issued.
Issued == IF gen' = "awaitingRead" THEN 1 ELSE 0

\* Where the chunk boundary before a chunk lies, buf the buffer and held the
\* bytes the decoder holds back at that boundary.
CutOf(buf, held) ==
    IF held # << >> THEN "char"
    ELSE IF buf = << >> THEN "none"
    ELSE IF Len(buf) < Len(DATA_PREFIX) /\ buf = SubSeq(DATA_PREFIX, 1, Len(buf))
         THEN "marker"
    ELSE "line"

\* A streamOpenAIChat that sends the request before it checks the key.
streamOpenAIChatFetchesFirst(hasKey, ok, hasBody) ==
    /\ call = "initial"
    /\ fetched' = TRUE
    /\ call' = IF ~hasKey THEN "threwMissingKey"
               ELSE IF ~ok THEN "threwApiError"
               ELSE IF ~hasBody THEN "threwNoBody"
               ELSE "returned"
    /\ pos' = IF hasKey /\ ~ok /\ hasBody THEN Len(body) ELSE pos
    /\ transport' = IF hasKey /\ ~ok /\ hasBody THEN "closed" ELSE transport
    /\ reader' = IF hasKey /\ ok /\ hasBody THEN "locked" ELSE reader
    /\ gen' = IF hasKey /\ ok /\ hasBody THEN "suspendedStart" ELSE gen
    /\ message' = IF ~hasKey THEN MISSING_KEY
                  ELSE IF ~ok THEN API_ERROR \o ResponseText(hasBody, body)
                  ELSE IF ~hasBody THEN NO_BODY
                  ELSE message
    /\ UNCHANGED <<recs, body, done, buffer, pend, lines, yielded, last, exit,
                   unanswered, cut,
                   active, other>>

(***************************************************************************)
(* streamOpenAIChat up to its return: the key check, fetch, the status     *)
(* check, the body check, getReader and the creation of the generator.     *)
(***************************************************************************)
streamOpenAIChat(hasKey, ok, hasBody) ==
    /\ call = "initial"
    /\ fetched' = hasKey
    /\ call' = IF ~hasKey THEN "threwMissingKey"
               ELSE IF ~ok THEN "threwApiError"
               ELSE IF ~hasBody THEN "threwNoBody"
               ELSE "returned"
    \* response.text() reads the whole body of a response that is not ok
    /\ pos' = IF hasKey /\ ~ok /\ hasBody THEN Len(body) ELSE pos
    /\ transport' = IF hasKey /\ ~ok /\ hasBody THEN "closed" ELSE transport
    /\ reader' = IF hasKey /\ ok /\ hasBody THEN "locked" ELSE reader
    /\ gen' = IF hasKey /\ ok /\ hasBody THEN "suspendedStart" ELSE gen
    /\ message' = IF ~hasKey THEN MISSING_KEY
                  ELSE IF ~ok THEN API_ERROR \o ResponseText(hasBody, body)
                  ELSE IF ~hasBody THEN NO_BODY
                  ELSE message
    /\ UNCHANGED <<recs, body, done, buffer, pend, lines, yielded, last, exit,
                   unanswered, cut,
                   active, other>>

(***************************************************************************)
(* The generator streamChunks.                                             *)
(***************************************************************************)

\* A shift where the code pops: the first element of the split.
PopFirst(ls) == ls[1]

\* buffer = lines.pop()
Pop(ls) == ls[Len(ls)]

\* A split whose last element is not popped: the unterminated text is taken
\* for a line too.
PoppedNothing(ls) == ls

\* A pop that takes the last complete line along with the partial one.
PoppedLosesLine(ls) == SubSeq(ls, 1, Len(ls) - 2)

\* lines after lines.pop()
Popped(ls) == SubSeq(ls, 1, Len(ls) - 1)

\* A generator whose sentinel leaves the for loop only (break for return):
\* the lines after it are dropped and the while loop reads on.
ContinueBreaks(r, d) ==
    CASE r.kind = "yield" ->
            /\ gen' = "suspendedYield"
            /\ lines' = r.rest
            /\ yielded' = Append(yielded, r.value)
            /\ last' = "value"
            /\ exit' = exit
      [] r.kind = "throw" ->
            /\ gen' = "completed"
            /\ lines' = << >>
            /\ yielded' = yielded
            /\ last' = "error"
            /\ exit' = "throw"
      [] OTHER ->
            /\ gen' = IF d THEN "completed" ELSE "awaitingRead"
            /\ lines' = << >>
            /\ yielded' = yielded
            /\ last' = IF d THEN "done" ELSE last
            /\ exit' = IF d THEN "eof" ELSE exit

\* The generator goes on from the for loop with outcome r of RunLines, d the
\* value of done: it suspends at a yield, completes at a return or a throw,
\* and after the last line tests while (!done) and awaits the next read.
Continue(r, d) ==
    CASE r.kind = "yield" ->
            /\ gen' = "suspendedYield"
            /\ lines' = r.rest
            /\ yielded' = Append(yielded, r.value)
            /\ last' = "value"
            /\ exit' = exit
      [] r.kind = "return" ->
            /\ gen' = "completed"
            /\ lines' = << >>
            /\ yielded' = yielded
            /\ last' = "done"
            /\ exit' = "sentinel"
      [] r.kind = "throw" ->
            /\ gen' = "completed"
            /\ lines' = << >>
            /\ yielded' = yielded
            /\ last' = "error"
            /\ exit' = "throw"
      [] OTHER ->
            /\ gen' = IF d THEN "completed" ELSE "awaitingRead"
            /\ lines' = << >>
            /\ yielded' = yielded
            /\ last' = IF d THEN "done" ELSE last
            /\ exit' = IF d THEN "eof" ELSE exit

\* The consumer's first next(): the body runs to the first await reader.read().
PullStart ==
    /\ gen = "suspendedStart"
    /\ gen' = IF done THEN "completed" ELSE "awaitingRead"
    /\ last' = IF done THEN "done" ELSE last
    /\ exit' = IF done THEN "eof" ELSE exit
    /\ unanswered' = unanswered + Issued
    /\ UNCHANGED <<recs, body, pos, transport, call, fetched, reader, done, buffer,
                   pend, lines, yielded, message, cut,
                   active, other>>

\* next() at a yield: the for loop goes on with the lines after the yielded one.
PullResume ==
    /\ gen = "suspendedYield"
    /\ Continue(RunLines(lines), done)
    /\ unanswered' = unanswered + Issued
    /\ UNCHANGED <<recs, body, pos, transport, call, fetched, reader, done, buffer, pend,
                   message, cut,
                   active, other>>

\* A completed generator that a next() sends back to the read.
PullCompletedRestarts ==
    /\ gen = "completed"
    /\ gen' = "awaitingRead"
    /\ unanswered' = unanswered + Issued
    /\ UNCHANGED <<recs, body, pos, transport, call, fetched, reader, done, buffer,
                   pend, lines, yielded, last, exit, message, cut,
                   active, other>>

\* A completed generator whose next() rejects.
PullCompletedRejects ==
    /\ gen = "completed"
    /\ last' = "error"
    /\ UNCHANGED <<recs, body, pos, transport, call, fetched, reader, gen, done, buffer,
                   pend, lines, yielded, exit, message, unanswered, cut,
                   active, other>>

\* next() on the completed generator: { value: undefined, done: true }.
PullCompleted ==
    /\ gen = "completed"
    /\ last' = "done"
    /\ UNCHANGED <<recs, body, pos, transport, call, fetched, reader, gen, done, buffer,
                   pend, lines, yielded, exit, message, unanswered, cut,
                   active, other>>

\* A generator that goes on to the next read when the consumer abandons it.
AbandonReadsOn ==
    /\ gen \in {"suspendedStart", "suspendedYield"}
    /\ gen' = "awaitingRead"
    /\ lines' = << >>
    /\ last' = "done"
    /\ exit' = "abandon"
    /\ unanswered' = unanswered + Issued
    /\ UNCHANGED <<recs, body, pos, transport, call, fetched, reader, done, buffer,
                   pend, yielded, message, cut,
                   active, other>>

\* The consumer abandons the sequence (return(), as a break out of for await
\* does) while the generator is suspended.
Abandon ==
    /\ gen \in {"suspendedStart", "suspendedYield"}
    /\ gen' = "completed"
    /\ lines' = << >>
    /\ last' = "done"
    /\ exit' = "abandon"
    /\ UNCHANGED <<recs, body, pos, transport, call, fetched, reader, done, buffer,
                   pend, yielded, message, unanswered, cut,
                   active, other>>

\* reader.read() resolves with the next k bytes of the body, { done: false }.
ReadChunk(k) ==
    /\ gen = "awaitingRead"
    /\ transport = "open"
    /\ k \in 0..(Len(body) - pos)
    /\ LET value == SubSeq(body, pos + 1, pos + k)
           decoded == Decode(pend, value)
           ls == Split(buffer \o decoded.text, "\n")
       IN  /\ pos' = pos + k
           /\ done' = FALSE
           /\ pend' = decoded.held
           /\ buffer' = Pop(ls)
           /\ Continue(RunLines(Popped(ls)), FALSE)
           /\ cut' = IF Len(ls) > 1 THEN CutOf(buffer, pend) ELSE "none"
    /\ unanswered' = unanswered - 1 + Issued
    /\ UNCHANGED <<recs, body, transport, call, fetched, reader, message,
                   active, other>>

\* A generator that processes what is left in the buffer as a last line when
\* the body ends.
ReadEndFlushes ==
    /\ gen = "awaitingRead"
    /\ transport = "open"
    /\ transport' = "closed"
    /\ done' = TRUE
    /\ buffer' = << >>
    /\ Continue(RunLines(<<buffer>>), TRUE)
    /\ unanswered' = unanswered + Issued
    /\ UNCHANGED <<recs, body, pos, call, fetched, reader, pend, message, cut,
                   active, other>>

\* reader.read() resolves with { value: undefined, done: true }: the body has
\* ended, after its last byte or earlier (the bytes not handed out never come).
ReadEnd ==
    /\ gen = "awaitingRead"
    /\ transport = "open"
    /\ transport' = "closed"
    /\ done' = TRUE
    /\ Continue(RunLines(<< >>), TRUE)
    /\ unanswered' = unanswered + Issued
    /\ UNCHANGED <<recs, body, pos, call, fetched, reader, buffer, pend, message, cut,
                   active, other>>

\* A generator that takes a failed read for the end of the body.
ReadErrorSwallowed ==
    /\ gen = "awaitingRead"
    /\ transport = "open"
    /\ transport' = "errored"
    /\ gen' = "completed"
    /\ lines' = << >>
    /\ last' = "done"
    /\ exit' = "eof"
    /\ UNCHANGED <<recs, body, pos, call, fetched, reader, done, buffer, pend, yielded,
                   message, unanswered, cut,
                   active, other>>

\* reader.read() rejects: the await throws out of the generator.
ReadError ==
    /\ gen = "awaitingRead"
    /\ transport = "open"
    /\ transport' = "errored"
    /\ gen' = "completed"
    /\ lines' = << >>
    /\ last' = "error"
    /\ exit' = "error"
    /\ UNCHANGED <<recs, body, pos, call, fetched, reader, done, buffer, pend, yielded,
                   message, unanswered, cut,
                   active, other>>

Next ==
    \/ \E hasKey, ok, hasBody \in BOOLEAN : streamOpenAIChat(hasKey, ok, hasBody)
    \/ PullStart
    \/ PullResume
    \/ PullCompleted
    \/ Abandon
    \/ \E k \in ChunkSizes(recs, body, pos) : ReadChunk(k)
    \/ ReadEnd
    \/ ReadError

Spec == Init /\ [][Next]_vars

(***************************************************************************)
(* Two calls of streamOpenAIChat.  The response, the reader, the decoder,  *)
(* done, buffer and the generator are created inside the call: each call   *)
(* has its own.  The variables hold those of the call active; the consumer *)
(* turns from one call to the other between two steps.                     *)
(***************************************************************************)

\* What belongs to one call.
Instance ==
    [recs |-> recs,
     body |-> body,
     pos |-> pos,
     transport |-> transport,
     call |-> call,
     fetched |-> fetched,
     reader |-> reader,
     gen |-> gen,
     done |-> done,
     buffer |-> buffer,
     pend |-> pend,
     lines |-> lines,
     yielded |-> yielded,
     last |-> last,
     exit |-> exit,
     message |-> message,
     unanswered |-> unanswered,
     cut |-> cut]

\* A module where done and buffer are declared outside streamOpenAIChat: the
\* two calls share them.
SwitchSharesBuffer ==
    /\ other # << >>
    /\ active' = 3 - active
    /\ other' = Instance
    /\ recs' = other.recs
    /\ body' = other.body
    /\ pos' = other.pos
    /\ transport' = other.transport
    /\ call' = other.call
    /\ fetched' = other.fetched
    /\ reader' = other.reader
    /\ gen' = other.gen
    /\ done' = done
    /\ buffer' = buffer
    /\ pend' = other.pend
    /\ lines' = other.lines
    /\ yielded' = other.yielded
    /\ last' = other.last
    /\ exit' = other.exit
    /\ message' = other.message
    /\ unanswered' = other.unanswered
    /\ cut' = other.cut

\* The consumer turns to the other call.
Switch ==
    /\ other # << >>
    /\ active' = 3 - active
    /\ other' = Instance
    /\ recs' = other.recs
    /\ body' = other.body
    /\ pos' = other.pos
    /\ transport' = other.transport
    /\ call' = other.call
    /\ fetched' = other.fetched
    /\ reader' = other.reader
    /\ gen' = other.gen
    /\ done' = other.done
    /\ buffer' = other.buffer
    /\ pend' = other.pend
    /\ lines' = other.lines
    /\ yielded' = other.yielded
    /\ last' = other.last
    /\ exit' = other.exit
    /\ message' = other.message
    /\ unanswered' = other.unanswered
    /\ cut' = other.cut

\* The bodies of the first of two calls: up to MaxPairRecs Delta lines; the
\* body of the second call.
MaxPairRecs == 2

PairRecSeqs == { [i \in 1..n |-> RecHel] : n \in 1..MaxPairRecs }

OtherRecs == <<RecLo, RecDone>>

\* The state of a call before streamOpenAIChat runs, rs the lines of the
\* response it will get.
Fresh(rs) ==
    [recs |-> rs, body |-> Render(rs), pos |-> 0, transport |-> "open",
     call |-> "initial", fetched |-> FALSE, reader |-> "none", gen |-> "none",
     done |-> FALSE, buffer |-> << >>, pend |-> << >>, lines |-> << >>,
     yielded |-> << >>, last |-> "none", exit |-> "none", message |-> << >>,
     unanswered |-> 0, cut |-> "none"]

\* The chunk sizes of the runs of two calls: all up to the end of a line or up
\* to the middle of the marker of a line.
PairChunkSizes(rs, p) ==
    LET ends == { EndOf(rs, i) : i \in 1..Len(rs) }
        mids == { EndOf(rs, i - 1) + 3 : i \in 1..Len(rs) }
    IN  { e - p : e \in { f \in ends \cup mids : f >= p } }

InitPair ==
    /\ recs \in PairRecSeqs
    /\ body = Render(recs)
    /\ pos = 0
    /\ transport = "open"
    /\ call = "initial"
    /\ fetched = FALSE
    /\ reader = "none"
    /\ gen = "none"
    /\ done = FALSE
    /\ buffer = << >>
    /\ pend = << >>
    /\ lines = << >>
    /\ yielded = << >>
    /\ last = "none"
    /\ exit = "none"
    /\ message = << >>
    /\ unanswered = 0
    /\ cut = "none"
    /\ active = 1
    /\ other = Fresh(OtherRecs)

NextPair ==
    \/ \E hasKey, ok, hasBody \in BOOLEAN : streamOpenAIChat(hasKey, ok, hasBody)
    \/ PullStart
    \/ PullResume
    \/ PullCompleted
    \/ Abandon
    \/ \E k \in PairChunkSizes(recs, pos) : ReadChunk(k)
    \/ ReadEnd
    \/ ReadError
    \/ Switch

SpecPair == InitPair /\ [][NextPair]_vars

(***************************************************************************)
(* What a run is compared with.  A record is a complete line of the body,  *)
(* terminator included; the records received are those the reader has      *)
(* handed out entirely.                                                    *)
(***************************************************************************)
NumReceived(rs, p) == Cardinality({ i \in 1..Len(rs) : EndOf(rs, i) <= p })
Received(rs, p) == SubSeq(rs, 1, NumReceived(rs, p))

\* The index of the first sentinel line of rs, 0 when it has none.
FirstSentinel(rs) ==
    LET at == { i \in 1..Len(rs) : rs[i].kind = "sentinel" }
    IN  IF at = {} THEN 0 ELSE CHOOSE i \in at : \A j \in at : i <= j

BeforeSentinel(rs) ==
    IF FirstSentinel(rs) = 0 THEN rs ELSE SubSeq(rs, 1, FirstSentinel(rs) - 1)

IsDeltaRec(r) == r.kind = "delta"
IsNotNoise(r) == r.kind # "noise"
IsNotEvent(r) == r.kind # "event"
IsString(v) == v.t = "string"

\* The texts of the Delta records of rs, in order, as the strings yielded.
DeltaTexts(rs) ==
    LET ds == SelectSeq(rs, IsDeltaRec)
    IN  [i \in 1..Len(ds) |-> JString(ds[i].text)]

StringsOf(ys) == SelectSeq(ys, IsString)

IsPrefix(a, b) == Len(a) <= Len(b) /\ a = SubSeq(b, 1, Len(a))

\* Everything the for loop yields on the lines ls, taken in one go.
RECURSIVE AllYields(_)
AllYields(ls) ==
    LET r == RunLines(ls)
    IN  IF r.kind = "yield" THEN <<r.value>> \o AllYields(r.rest) ELSE << >>

\* How the for loop ends on the lines ls taken in one go: "return" at a
\* sentinel, "throw", or "exhausted".
RECURSIVE AllEnds(_)
AllEnds(ls) ==
    LET r == RunLines(ls)
    IN  IF r.kind = "yield" THEN AllEnds(r.rest) ELSE r.kind

WholeEnd(bytes) == AllEnds(Popped(Split(Decode(<< >>, bytes).text, "\n")))

\* What the generator yields on a body handed out as one chunk.
WholeYield(bytes) == AllYields(Popped(Split(Decode(<< >>, bytes).text, "\n")))

\* The sentinel line has been received and the for loop has reached it.
SentinelProcessed ==
    /\ call = "returned"
    /\ exit # "abandon"
    /\ FirstSentinel(recs) # 0
    /\ FirstSentinel(recs) <= NumReceived(recs, pos) - Len(lines)

\* Every complete line received has been processed and its yield consumed.
CaughtUp == gen = "awaitingRead" \/ exit \in {"eof", "sentinel"}

(***************************************************************************)
(* Claims.                                                                 *)
(***************************************************************************)

\* C1 (chunking independence with sentinel): on a body whose records end with
\* the sentinel line, however the bytes were chunked, the sequence that has
\* ended at the sentinel has yielded exactly the texts of the Delta records
\* that precede the sentinel, and has ended successfully.
\* The code yields the delta of a record whose delta is not a string too.
C1_YieldsExactlyDeltaTexts ==
    (exit = "sentinel" /\ FirstSentinel(recs) = Len(recs))
        => (yielded = DeltaTexts(BeforeSentinel(recs)) /\ last = "done")

\* C2 (order and one yield per Delta): in every state of every run, the k-th
\* yielded string is the text of the k-th Delta record received: the strings
\* yielded are a prefix of the texts of the Delta records received before the
\* sentinel, so no Delta is merged, split, repeated or reordered.
C2_OrderAndOneToOne ==
    IsPrefix(StringsOf(yielded), DeltaTexts(BeforeSentinel(Received(recs, pos))))

C2_Witness ==
    /\ Len(yielded) = 2
    /\ yielded[1] = JString(HEL)
    /\ yielded[2] = JString(LO)

\* C3 (sentinel finality): once the sentinel line has been processed the
\* sequence has ended successfully, nothing of the lines after the sentinel is
\* processed or yielded (what was yielded is what the body cut before the
\* sentinel yields), and from then on no read is issued and nothing is yielded.
C3_SentinelFinality ==
    /\ [](SentinelProcessed =>
            /\ gen = "completed"
            /\ exit = "sentinel"
            /\ last = "done"
            /\ lines = << >>
            /\ yielded = WholeYield(Render(BeforeSentinel(recs))))
    /\ [][SentinelProcessed =>
            /\ pos' = pos
            /\ transport' = transport
            /\ yielded' = yielded]_vars

C3_Witness ==
    /\ exit = "sentinel"
    /\ Len(recs) = 3
    /\ FirstSentinel(recs) = 2
    /\ recs[3].kind = "delta"
    /\ pos = Len(body)
    /\ Len(yielded) = 1

\* C4 (resource release): on every way the sequence ends (sentinel, end of
\* stream, transport error, abandonment) the reader obtained from the body is
\* released: cancelled or its lock released.
\* (A body stream that has closed or errored by itself is counted as released.)
\* The code never cancels the reader nor releases its lock: after the sentinel
\* and after abandonment the reader is locked and the body stream open.
C4_ReaderReleased ==
    gen = "completed" =>
        (reader \in {"released", "cancelled"} \/ transport # "open")

\* C5 (mid-stream failure): when a read of the transport fails, the values
\* yielded before stay as they are, the pull that issued the read is rejected
\* with the error and nothing is yielded in its place; the error is never
\* turned into a normal end.
C5_ReadFailureSurfaces ==
    /\ [][(transport = "open" /\ transport' = "errored") =>
            /\ gen = "awaitingRead"
            /\ yielded' = yielded
            /\ last' = "error"
            /\ gen' = "completed"
            /\ exit' = "error"]_vars
    /\ [](transport = "errored" => exit = "error")

C5_Witness ==
    /\ exit = "error"
    /\ last = "error"
    /\ yielded = <<JString(HEL), JString(HEL)>>

\* C6 (end of stream without sentinel): when the transport signals the end of
\* the stream and no sentinel record was received, the sequence has yielded
\* the text of every Delta record received, in order, and has ended without
\* error.
C6_EndWithoutSentinel ==
    (exit = "eof" /\ FirstSentinel(Received(recs, pos)) = 0) =>
        /\ StringsOf(yielded) = DeltaTexts(Received(recs, pos))
        /\ last = "done"
        /\ gen = "completed"

C6_Witness ==
    /\ exit = "eof"
    /\ FirstSentinel(recs) = 0
    /\ pos = Len(body)
    /\ Len(StringsOf(yielded)) = 3

\* C7 (nothing after the end): once the sequence has ended, by the sentinel,
\* the end of the stream, an error or abandonment, every later pull reports
\* completion and nothing more is yielded.
C7_NothingAfterEnd ==
    [][gen = "completed" =>
        /\ gen' = "completed"
        /\ yielded' = yielded
        /\ last' = "done"]_vars

C7_Witness ==
    /\ exit = "error"
    /\ last = "done"
    /\ Len(yielded) = 1

\* C8 (delta that is not a string): an event of the output text delta type
\* whose delta is not a string (a number, a boolean, an object) yields
\* nothing: every value yielded is a string.
\* The code tests the delta for truthiness only and yields it as it is.
C8_OnlyStringsYielded ==
    \A i \in 1..Len(yielded) : yielded[i].t = "string"

\* C9 (resilience to noise): in a stream of valid Delta lines with noise lines
\* among them (blank lines, other SSE fields, lines without the marker,
\* malformed JSON), no noise line raises an error or ends the sequence, and
\* once the lines received are processed the values yielded are those the
\* stream without its noise lines yields.
C9_NoiseChangesNothing ==
    (/\ call = "returned"
     /\ \A i \in 1..Len(recs) : recs[i].kind \in {"delta", "noise"}
     /\ \E i \in 1..NumReceived(recs, pos) : recs[i].kind = "noise")
    => /\ exit \notin {"sentinel", "throw"}
       /\ last = "error" => exit = "error"
       /\ CaughtUp =>
            yielded = WholeYield(Render(SelectSeq(Received(recs, pos), IsNotNoise)))

C9_Witness ==
    /\ exit = "eof"
    /\ pos = Len(body)
    /\ Len(recs) = 3
    /\ recs[1].kind = "delta"
    /\ recs[2] = RecMalformed
    /\ recs[3].kind = "delta"
    /\ Len(yielded) = 2

\* C10 (filtering): an event that parses but is of another type, or whose
\* delta is empty or absent, yields nothing and does not stop the decoding:
\* once the lines received are processed the values yielded are those the
\* stream without these events yields, and the sequence has not failed.
C10_FilteredEventsYieldNothing ==
    (/\ call = "returned"
     /\ \E i \in 1..NumReceived(recs, pos) : recs[i].kind = "event")
    => /\ exit # "throw"
       /\ CaughtUp =>
            yielded = WholeYield(Render(SelectSeq(Received(recs, pos), IsNotEvent)))

C10_Witness ==
    /\ exit = "eof"
    /\ pos = Len(body)
    /\ Len(recs) = 3
    /\ recs[1].kind = "delta"
    /\ recs[2] = RecEmptyDelta
    /\ recs[3].kind = "delta"
    /\ Len(yielded) = 2

\* C11 (split boundaries): when the line a chunk has completed had been cut
\* by the chunk boundary before it, inside a multi-byte character, inside the
\* 'data: ' marker or anywhere else in the line, then once the lines received
\* are processed the values yielded are those the same bytes yield when they
\* are handed out as one chunk.
C11_SplitDecodesAsUnsplit ==
    (cut # "none" /\ CaughtUp) => yielded = WholeYield(SubSeq(body, 1, pos))

C11_Witness ==
    /\ cut = "char"
    /\ CaughtUp
    /\ yielded = <<JString(HEL), JString(<<E_ACUTE>>)>>

\* C12 (buffer invariant): whenever the generator is suspended, at the await
\* of a read or at a yield, the buffer holds no line terminator and is the
\* text of the bytes received after the last line terminator received.
C12_BufferIsUnterminatedTail ==
    gen \in {"awaitingRead", "suspendedYield"} =>
        /\ \A i \in 1..Len(buffer) : buffer[i] # "\n"
        /\ buffer =
             Decode(<< >>, SubSeq(body, EndOf(recs, NumReceived(recs, pos)) + 1, pos)).text

C12_Witness ==
    /\ gen = "suspendedYield"
    /\ buffer = <<"d">>
    /\ Len(yielded) = 2

\* C13 (initiation errors): a missing key makes streamOpenAIChat throw before
\* the request is sent; a response that is not ok makes it throw an error
\* whose message carries the text of the response, before the reader is
\* taken and any read is issued (the body is consumed by response.text(), not
\* by the generator).  In both cases no generator exists: nothing is pulled,
\* yielded or rejected through the sequence.
C13_InitiationErrors ==
    /\ call = "threwMissingKey" =>
        /\ ~fetched
        /\ message = MISSING_KEY
        /\ pos = 0
    /\ call = "threwApiError" =>
        /\ fetched
        /\ message = API_ERROR \o Decode(<< >>, SubSeq(body, 1, pos)).text
    /\ call \in {"threwMissingKey", "threwApiError"} =>
        /\ gen = "none"
        /\ reader = "none"
        /\ unanswered = 0
        /\ yielded = << >>
        /\ last = "none"
        /\ exit = "none"

C13_Witness ==
    /\ call = "threwApiError"
    /\ Len(recs) = 3
    /\ pos = Len(body)
    /\ Len(message) = Len(API_ERROR) + Len(body)

\* C14 (sequential pulls): at most one read is outstanding, and the read for
\* the next chunk is issued only after the lines of the chunks before are all
\* processed and their Deltas all pulled: while the generator awaits a read
\* that read is the only one no chunk has answered, no line is left over and
\* every Delta record received has been yielded; while it is suspended before
\* its first pull or at a yield no read is outstanding.
C14_SequentialPulls ==
    /\ gen = "awaitingRead" =>
        /\ unanswered = 1
        /\ lines = << >>
        /\ StringsOf(yielded) = DeltaTexts(Received(recs, pos))
    /\ gen \in {"suspendedStart", "suspendedYield"} => unanswered = 0

C14_Witness ==
    /\ gen = "awaitingRead"
    /\ Len(recs) = 3
    /\ pos = EndOf(recs, 2)
    /\ Len(yielded) = 2
    /\ last = "value"

\* The line of a record without the whitespace around its payload.
Bare(r) ==
    IF r.kind = "sentinel" THEN RecDone ELSE IF r = RecHelCr THEN RecHel ELSE r

BareOf(rs) == [i \in 1..Len(rs) |-> Bare(rs[i])]

\* C15 (payload whitespace): whitespace around the payload of a 'data: ' line
\* is stripped: once the lines received are processed, a stream with a
\* sentinel line or a Delta line that has whitespace around its payload (a
\* trailing carriage return, blanks before and after) has yielded what the
\* stream with the bare lines yields, and has ended at the sentinel exactly
\* when the stream with the bare lines does.
C15_PayloadWhitespaceStripped ==
    (/\ call = "returned"
     /\ CaughtUp
     /\ \E i \in 1..NumReceived(recs, pos) :
            recs[i] \in {RecHelCr, RecDoneCr, RecDonePadded})
    => LET bare == Render(BareOf(Received(recs, pos)))
       IN  /\ yielded = WholeYield(bare)
           /\ (exit = "sentinel") = (WholeEnd(bare) = "return")
           /\ exit = "sentinel" => last = "done"

C15_Witness ==
    /\ exit = "sentinel"
    /\ recs = <<RecHel, RecDonePadded, RecHel>>
    /\ yielded = <<JString(HEL)>>

\* C17 (unterminated last line): when the body ends after a Delta line or a
\* sentinel line that has all its bytes but its line terminator, that line is
\* never processed: it yields nothing and is no sentinel (the sequence ends
\* by the end of the stream, with what the terminated lines yield), and its
\* text is left in the buffer.
C17_UnterminatedLineDropped ==
    LET n == NumReceived(recs, pos)
    IN  (/\ call = "returned"
         /\ transport = "closed"
         /\ n < Len(recs)
         /\ pos = EndOf(recs, n + 1) - 1
         /\ recs[n + 1].kind \in {"delta", "sentinel"})
        => /\ exit = "eof"
           /\ gen = "completed"
           /\ last = "done"
           /\ buffer = Decode(<< >>, recs[n + 1].line).text
           /\ yielded = WholeYield(Render(Received(recs, pos)))

C17_Witness ==
    /\ exit = "eof"
    /\ recs = <<RecHel, RecDone>>
    /\ pos = Len(body) - 1
    /\ buffer = DATA_PREFIX \o DONE_TEXT
    /\ yielded = <<JString(HEL)>>

\* C18 (abandonment): when the consumer ends the sequence while the generator
\* is suspended, the generator completes there: the step processes none of
\* the lines left of the current chunk and issues no read, and afterwards no
\* read is issued, nothing is read from the body and nothing is yielded.
C18_AbandonmentStopsConsumption ==
    /\ [](exit = "abandon" => (gen = "completed" /\ lines = << >>))
    /\ [][(exit # "abandon" /\ exit' = "abandon") =>
            /\ gen \in {"suspendedStart", "suspendedYield"}
            /\ yielded' = yielded
            /\ pos' = pos
            /\ transport' = transport
            /\ unanswered' = unanswered
            /\ last' = "done"]_vars
    /\ [][exit = "abandon" =>
            /\ exit' = "abandon"
            /\ yielded' = yielded
            /\ pos' = pos
            /\ transport' = transport
            /\ unanswered' = unanswered]_vars

C18_Witness ==
    /\ exit = "abandon"
    /\ recs = <<RecHel, RecHel, RecDone>>
    /\ pos = Len(body)
    /\ yielded = <<JString(HEL)>>
    /\ transport = "open"

\* C19 (no read after the end of the stream): once a read has reported the
\* end of the stream (done is true) the generator has completed and never
\* issues a read again; in every state the reads issued are at most the
\* chunks delivered plus one.
C19_NoReadAfterEnd ==
    /\ [](unanswered \in {0, 1})
    /\ [](done => (gen = "completed" /\ transport = "closed"))
    /\ [][done =>
            /\ done'
            /\ gen' = "completed"
            /\ unanswered' = unanswered
            /\ pos' = pos
            /\ transport' = transport]_vars

C19_Witness ==
    /\ done
    /\ exit = "eof"
    /\ unanswered = 1
    /\ pos = Len(body)
    /\ Len(yielded) = 3

\* C20 (chunk without line terminator): a read that delivers a chunk with no
\* line terminator in it yields nothing, does not end the sequence (the
\* generator awaits the next read) and sets the buffer to what it was followed
\* by the decoded text of the chunk; a chunk of no bytes leaves the buffer as
\* it was.
C20_UnterminatedChunkOnlyBuffers ==
    [][(/\ gen = "awaitingRead"
        /\ transport' = transport
        /\ \A i \in (pos + 1)..pos' : body[i] # "\n")
       => /\ yielded' = yielded
          /\ gen' = "awaitingRead"
          /\ exit' = exit
          /\ last' = last
          /\ lines' = << >>
          /\ buffer' = buffer \o Decode(pend, SubSeq(body, pos + 1, pos')).text
          /\ pos' = pos => buffer' = buffer]_vars

C20_Witness ==
    /\ gen = "awaitingRead"
    /\ pend = <<LeadByte>>
    /\ yielded = <<JString(HEL)>>
    /\ Len(buffer) > Len(DATA_PREFIX)

\* C16 (isolation of two calls): with two calls of streamOpenAIChat pulled in
\* any interleaving, a step of one call leaves everything of the other call
\* as it is, a call the consumer turns to finds its buffer, its done flag, its
\* values yielded and all the rest as it left them, and each call, once the
\* lines it received are processed, has yielded what its bytes yield when it
\* runs alone.
C16_CallsAreIsolated ==
    /\ [][IF active' = active
          THEN other' = other
          ELSE other' = Instance /\ Instance' = other]_vars
    /\ [](CaughtUp => yielded = WholeYield(SubSeq(body, 1, pos)))
    /\ []((other.gen = "awaitingRead" \/ other.exit \in {"eof", "sentinel"})
            => other.yielded = WholeYield(SubSeq(other.body, 1, other.pos)))

C16_Witness ==
    /\ active = 2
    /\ gen = "awaitingRead"
    /\ yielded = <<JString(LO)>>
    /\ buffer = <<"d", "a", "t">>
    /\ other.gen = "suspendedYield"
    /\ other.yielded = <<JString(HEL), JString(HEL)>>

====
